---- MODULE Spec2Model ----
(***************************************************************************)
(* Ledger lifecycle of django_ledger.models.ledger.LedgerModelAbstract:    *)
(* the posted / locked / hidden flags of one in-memory LedgerModel, the    *)
(* row that save() and delete() act on, the journal entries under the      *)
(* ledger and the owning entity's last_closing_date; the entity-scoped     *)
(* queryset LedgerModelManager.for_entity with the views that use it; and  *)
(* two callers that each work on their own copy of one ledger row.         *)
(***************************************************************************)
EXTENDS Integers, FiniteSets, Sequences, TLC

VARIABLES posted, locked, hidden, pk, db, journal_entries, last_closing_date, last, prev,
          queried,
          entities, ledger_entity, response,
          copy, pc, call

\* The entities with their admin and managers, the entity of each ledger and
\* the last queryset or view response.
accessVars == <<entities, ledger_entity, response>>

\* Per caller: its in-memory copy of the ledger, whether a save is pending and
\* its last call.
raceVars == <<copy, pc, call>>

others == <<accessVars, raceVars>>

ledgerVars == <<posted, locked, hidden, pk, db, journal_entries, last_closing_date, last,
                prev, queried>>

vars == <<posted, locked, hidden, pk, db, journal_entries, last_closing_date, last, prev,
          queried, entities, ledger_entity, response, copy, pc, call>>

\* ---------------------------------------------------------------- bounds
\* Journal entry timestamps are 0..MaxTs, TicksPerDay timestamps to a date.
MaxTs == 2
TicksPerDay == 2
\* At most MaxJE journal entries under the ledger.
MaxJE == 2
\* Closing dates are None or 0..MaxClose.
MaxClose == 1
\* Users are 1..MaxUser, ledgers of the access model 1..MaxLedger.
MaxUser == 2
MaxLedger == 2
\* Each of the two callers makes at most MaxCalls calls.
MaxCalls == 2

\* ---------------------------------------------------------------- values
\* Python's None, for an Optional date or an empty queryset's first():
\* a value outside the timestamps and the dates.
None == -1

Timestamps == 0..MaxTs

\* datetime.date(): the day a timestamp falls on.
date(timestamp) == timestamp \div TicksPerDay

\* A journal entry row: its timestamp and its own posted flag.
JournalEntries == [timestamp : Timestamps, posted : BOOLEAN]

ClosingDates == {None} \cup (0..MaxClose)

\* The three flags of a ledger, in memory or in its row.
Flags == [posted : BOOLEAN, locked : BOOLEAN, hidden : BOOLEAN]

\* The in-memory LedgerModel instance.
self == [posted |-> posted, locked |-> locked, hidden |-> hidden]

\* The row of the ledger; exists = FALSE once the row is destroyed.
Row(l) == [exists |-> TRUE, posted |-> l.posted, locked |-> l.locked, hidden |-> l.hidden]

Destroyed == [exists |-> FALSE, posted |-> FALSE, locked |-> FALSE, hidden |-> FALSE]

\* The uuid primary key of the ledger row the instance was loaded from.
RowPk == 1

\* A uuid4 generated anew: the key of no row.
NewPk == MaxLedger + 1

\* Field.get_pk_value_on_save for uuid = UUIDField(default=uuid4,
\* primary_key=True): an instance without a key gets a new one from the
\* default.
get_pk_value_on_save(key) == IF key = None THEN NewPk ELSE key

\* ---------------------------------------------------------------- predicates
is_posted(l) == l.posted = TRUE

is_locked(l) == l.locked = TRUE

is_hidden(l) == l.hidden = TRUE

can_post_on_unlocked(l) == l.locked = FALSE

can_post(l) == l.posted = FALSE

can_unpost_ignores_lock(l) == is_posted(l)

can_unpost_unless_hidden(l) == is_posted(l) /\ ~is_locked(l) /\ ~is_hidden(l)

can_unpost(l) == is_posted(l) /\ ~is_locked(l)

can_lock_ignores_posted(l) == ~l.locked

can_lock_on_posted(l) == l.posted

can_lock(l) == ~l.locked /\ l.posted

can_unlock_ignores_posted(l) == l.locked

can_unlock_never(l) == FALSE

can_unlock_on_unposted(l) == l.locked /\ ~l.posted

can_unlock(l) == l.locked /\ l.posted

can_delete_always(l) == TRUE

can_delete_ignores_posted(l) == IF ~is_locked(l) THEN TRUE ELSE FALSE

can_delete_either(l) == IF ~is_locked(l) \/ ~is_posted(l) THEN TRUE ELSE FALSE

can_delete(l) == IF ~is_locked(l) /\ ~is_posted(l) THEN TRUE ELSE FALSE

\* ---------------------------------------------------------------- persistence
\* JournalEntryModelQuerySet.posted(): the journal entries marked posted.
posted_journal_entries(jes) == {je \in jes : je.posted = TRUE}

\* order_by('-timestamp').values('timestamp').first(): the greatest
\* timestamp, None for an empty queryset.
first_by_timestamp_desc(jes) ==
    IF jes = {} THEN None
    ELSE CHOOSE t \in {je.timestamp : je \in jes} :
            \A je \in jes : je.timestamp <= t

\* A variant of save() whose update_fields name only 'updated'.
save_only_updated(row, l, fields) ==
    IF row.exists
    THEN [f \in DOMAIN row |-> IF f \in fields \cap {"updated"} THEN l[f] ELSE row[f]]
    ELSE row

\* A variant of save() that ignores update_fields and writes every flag.
save_all_fields(row, l, fields) == IF row.exists THEN Row(l) ELSE row

\* A variant of save() that inserts the row when it does not exist.
save_or_insert(row, l, fields) ==
    IF row.exists
    THEN [f \in DOMAIN row |-> IF f \in fields THEN l[f] ELSE row[f]]
    ELSE Row(l)

\* save(update_fields=fields): writes the named flags of the instance to its
\* row; a row that no longer exists is not written.
save(row, l, fields) ==
    IF row.exists
    THEN [f \in DOMAIN row |-> IF f \in fields THEN l[f] ELSE row[f]]
    ELSE row

\* save(update_fields=...) on an instance whose row is gone raises: the
\* UPDATE affects no row.
save_error(row) == IF row.exists THEN "none" ELSE "DatabaseError"

\* ---------------------------------------------------------------- call record
\* No call made yet.
NoCall ==
    [op |-> "none", commit |-> FALSE, guard |-> FALSE, err |-> "none",
     pre |-> [posted |-> FALSE, locked |-> FALSE, hidden |-> FALSE],
     predb |-> Row([posted |-> FALSE, locked |-> FALSE, hidden |-> FALSE]),
     saved |-> {}]

\* The record of one call: the operation, its commit flag, the value of the
\* can_* guard it evaluated, the error it raised, the flags and the row it
\* started from and the fields its save() wrote.
Called(op, commit, guard, err, fields) ==
    /\ prev' = [op |-> last.op, pre |-> last.pre, err |-> last.err]
    /\ last' = [op |-> op, commit |-> commit, guard |-> guard, err |-> err,
                pre |-> self, predb |-> db, saved |-> fields]

\* No call before the last one.
NoPrev == [op |-> "none", pre |-> NoCall.pre, err |-> "none"]

\* ---------------------------------------------------------------- operations
\* A transition of one flag: guard, then set the flag, then save it if commit.
\* save() gives an instance without a key a new one before its UPDATE, and
\* the instance keeps it when the UPDATE then affects no row.
Transition(op, guard, flag, value, commit) ==
    IF guard
    THEN LET after == [self EXCEPT ![flag] = value]
             fields == {flag, "updated"}
         IN /\ posted' = after.posted
            /\ locked' = after.locked
            /\ queried' = {}
            /\ IF commit
               THEN /\ pk' = get_pk_value_on_save(pk)
                    /\ db' = save(db, after, fields)
                    /\ Called(op, commit, TRUE, save_error(db),
                              IF db.exists THEN fields ELSE {})
               ELSE /\ pk' = pk
                    /\ db' = db
                    /\ Called(op, commit, TRUE, "none", {})
    ELSE /\ UNCHANGED <<posted, locked, pk, db>>
         /\ queried' = {}
         /\ Called(op, commit, FALSE, "none", {})

\* A variant of post that raises on an illegal call instead of returning.
post_strict(commit) ==
    /\ IF can_post(self)
       THEN Transition("post", TRUE, "posted", TRUE, commit)
       ELSE /\ UNCHANGED <<posted, locked, pk, db>>
            /\ queried' = {}
            /\ Called("post", commit, FALSE, "LedgerModelValidationError", {})
    /\ UNCHANGED <<hidden, journal_entries, last_closing_date, others>>

post(commit) ==
    /\ Transition("post", can_post(self), "posted", TRUE, commit)
    /\ UNCHANGED <<hidden, journal_entries, last_closing_date, others>>

unpost(commit) ==
    /\ Transition("unpost", can_unpost(self), "posted", FALSE, commit)
    /\ UNCHANGED <<hidden, journal_entries, last_closing_date, others>>

lock(commit) ==
    /\ Transition("lock", can_lock(self), "locked", TRUE, commit)
    /\ UNCHANGED <<hidden, journal_entries, last_closing_date, others>>

\* A variant of unlock that saves outside the guard.
unlock_saves_always(commit) ==
    /\ IF can_unlock(self)
       THEN Transition("unlock", TRUE, "locked", FALSE, commit)
       ELSE /\ UNCHANGED <<posted, locked>>
            /\ queried' = {}
            /\ pk' = IF commit THEN get_pk_value_on_save(pk) ELSE pk
            /\ db' = IF commit THEN save(db, self, {"locked", "updated"}) ELSE db
            /\ Called("unlock", commit, FALSE,
                      IF commit THEN save_error(db) ELSE "none",
                      IF commit /\ db.exists THEN {"locked", "updated"} ELSE {})
    /\ UNCHANGED <<hidden, journal_entries, last_closing_date, others>>

unlock(commit) ==
    /\ Transition("unlock", can_unlock(self), "locked", FALSE, commit)
    /\ UNCHANGED <<hidden, journal_entries, last_closing_date, others>>

\* earliest_date <= self.entity.last_closing_date, for a closing date that is set.
closed_for_strictly_before(earliest_date, closing_date) == earliest_date < closing_date

closed_for(earliest_date, closing_date) == earliest_date <= closing_date

\* self.journal_entries: the journal entries whose ledger is the instance's
\* key; jes are those of the row.
related_journal_entries(key, row, jes) == IF row.exists /\ key = RowPk THEN jes ELSE {}

\* A variant of delete() that runs the journal entry check before the state check.
delete_result_history_first(l, key, row, jes, closing_date) ==
    IF key = None /\ can_delete(l)
    THEN [err |-> "ValueError", queried |-> {}]
    ELSE LET earliest_je_timestamp ==
                first_by_timestamp_desc(posted_journal_entries(related_journal_entries(key, row, jes)))
         IN IF earliest_je_timestamp /= None /\ closing_date = None
            THEN [err |-> "TypeError",
                  queried |-> {"journal_entries", "last_closing_date"}]
            ELSE IF earliest_je_timestamp /= None
                    /\ closed_for(date(earliest_je_timestamp), closing_date)
            THEN [err |-> "ClosedPeriodViolation",
                  queried |-> {"journal_entries", "last_closing_date"}]
            ELSE [err |-> IF can_delete(l) THEN "none" ELSE "LedgerNotDeletable",
                  queried |-> IF earliest_je_timestamp /= None
                              THEN {"journal_entries", "last_closing_date"}
                              ELSE {"journal_entries"}]

\* delete() of the instance l with the key, the row, the journal entries and
\* the entity closing date given: the error it raises ("none" when
\* super().delete() returns) and the collaborator queries it made on the way.
\* An instance without a key raises ValueError; one whose key is of no row
\* has no journal entries and its super().delete() deletes nothing.
delete_result(l, key, row, jes, closing_date) ==
    IF ~can_delete(l)
    THEN [err |-> "LedgerNotDeletable", queried |-> {}]
    ELSE IF key = None
    THEN [err |-> "ValueError", queried |-> {}]
    ELSE LET earliest_je_timestamp ==
                first_by_timestamp_desc(posted_journal_entries(related_journal_entries(key, row, jes)))
         IN IF earliest_je_timestamp /= None
            THEN LET earliest_date == date(earliest_je_timestamp)
                 IN [err |-> IF closing_date = None THEN "TypeError"
                             ELSE IF closed_for(earliest_date, closing_date)
                                  THEN "ClosedPeriodViolation"
                                  ELSE "none",
                     queried |-> {"journal_entries", "last_closing_date"}]
            ELSE [err |-> "none", queried |-> {"journal_entries"}]

\* The outcome of delete(): the error it raises, "none" when it reaches
\* super().delete().
delete_outcome == delete_result(self, pk, db, journal_entries, last_closing_date).err

\* super().delete() destroys the row with the instance's key, cascading to
\* its journal entries, and leaves the instance without a key.
delete ==
    /\ IF delete_outcome = "none"
       THEN /\ db' = IF pk = RowPk THEN Destroyed ELSE db
            /\ journal_entries' = IF pk = RowPk THEN {} ELSE journal_entries
            /\ pk' = None
       ELSE UNCHANGED <<pk, db, journal_entries>>
    /\ queried' = delete_result(self, pk, db, journal_entries, last_closing_date).queried
    /\ Called("delete", FALSE, can_delete(self), delete_outcome, {})
    /\ UNCHANGED <<posted, locked, hidden, last_closing_date, others>>

\* The flags of the instance l after l.post(), l.unpost(), l.lock(), l.unlock().
post_flags(l) == IF can_post(l) THEN [l EXCEPT !.posted = TRUE] ELSE l

unpost_flags(l) == IF can_unpost(l) THEN [l EXCEPT !.posted = FALSE] ELSE l

lock_flags(l) == IF can_lock(l) THEN [l EXCEPT !.locked = TRUE] ELSE l

unlock_flags(l) == IF can_unlock(l) THEN [l EXCEPT !.locked = FALSE] ELSE l

\* The can_* guard of the lifecycle call named op.
can(op, l) ==
    CASE op = "post" -> can_post(l)
      [] op = "unpost" -> can_unpost(l)
      [] op = "lock" -> can_lock(l)
      [] op = "unlock" -> can_unlock(l)

\* The flags of l after the lifecycle call named op.
flags_after(op, l) ==
    CASE op = "post" -> post_flags(l)
      [] op = "unpost" -> unpost_flags(l)
      [] op = "lock" -> lock_flags(l)
      [] op = "unlock" -> unlock_flags(l)

\* The flag a lifecycle call assigns and names in update_fields.
FlagOf(op) == IF op \in {"post", "unpost"} THEN "posted" ELSE "locked"

\* ---------------------------------------------------------------- entity-scoped access
Users == 1..MaxUser

LedgerIds == 1..MaxLedger

Entities == {"e1", "e2"}

Slugs == {"a", "b"}

\* The slug of each entity.
EntitySlug == [e \in Entities |-> IF e = "e1" THEN "a" ELSE "b"]

\* A slug no entity has.
UnknownSlug == "zz"

\* The slug "a" as a request may spell it.
UpperSlug == "A"

\* The entity_slug a request's URL carries.
RequestSlugs == Slugs \cup {UnknownSlug, UpperSlug}

\* The entity of a ledger id that has no row.
NoEntity == "none"

\* The ledger ids that have a row.
ledger_rows == {l \in LedgerIds : ledger_entity[l] /= NoEntity}

\* The entity_slug argument of for_entity: a slug string or an EntityModel.
SlugRef(slug) == [kind |-> "slug", value |-> slug]

EntityRef(e) == [kind |-> "entity", value |-> e]

\* The rows of entity e in the LEFT OUTER JOIN with its managers: one per
\* manager, one with a NULL manager (0) when it has none.
manager_rows(e) == IF entities[e].managers = {} THEN {0} ELSE entities[e].managers

\* Q(entity=entity_slug) for an EntityModel, Q(entity__slug__exact=entity_slug)
\* for a slug.
entity_filter(ref, e) ==
    IF ref.kind = "entity" THEN e = ref.value ELSE entities[e].slug = ref.value

\* Q(entity__admin=user_model) | Q(entity__managers__in=[user_model]) on one
\* joined row.
user_filter(e, manager, user_model) ==
    entities[e].admin = user_model \/ manager = user_model

\* A variant of for_entity without the user filter.
for_entity_any_user(entity_slug, user_model) ==
    [l \in LedgerIds |->
        IF ledger_entity[l] = NoEntity
        THEN 0
        ELSE Cardinality({m \in manager_rows(ledger_entity[l]) :
                             entity_filter(entity_slug, ledger_entity[l])})]

\* LedgerModelManager.for_entity: the queryset, as the number of times each
\* ledger is in it (the join gives one row per matching manager row).
for_entity(entity_slug, user_model) ==
    [l \in LedgerIds |->
        IF ledger_entity[l] = NoEntity
        THEN 0
        ELSE Cardinality({m \in manager_rows(ledger_entity[l]) :
                             /\ entity_filter(entity_slug, ledger_entity[l])
                             /\ user_filter(ledger_entity[l], m, user_model)})]

\* The ledgers in a queryset.
ledgers_of(qs) == {l \in DOMAIN qs : qs[l] > 0}

\* No request made yet.
NoResponse ==
    [view |-> "none", user |-> 0, ref |-> SlugRef(UnknownSlug),
     rows |-> [l \in LedgerIds |-> 0], object |-> 0, err |-> "none"]

\* The sort keys a request gives: none, a name that is no field of the
\* ledger, and the reverse relation to the journal entries.
SortKeys == {"", "no_such_field", "journal_entries"}

\* The names order_by can resolve on a LedgerModel, of those a request gives.
OrderFields == {"-updated", "journal_entries"}

\* The journal entries of the ledger row l: the in-memory instance is that of
\* the row with key RowPk, the other ledgers have none.
journal_entries_of(l) == IF l = RowPk THEN journal_entries ELSE {}

\* The rows of ledger l in the LEFT OUTER JOIN with its journal entries.
journal_entry_rows(l) ==
    IF journal_entries_of(l) = {} THEN 1 ELSE Cardinality(journal_entries_of(l))

\* QuerySet.order_by(sort): ordering by a multi-valued relation joins it, so
\* a ledger is in the result once per journal entry; any other field leaves
\* the rows as they are.
order_by(qs, sort) ==
    IF sort = "journal_entries"
    THEN [l \in DOMAIN qs |-> qs[l] * journal_entry_rows(l)]
    ELSE qs

\* order_by of a name that is no field raises FieldError.
order_by_error(sort) == IF sort \in OrderFields THEN "none" ELSE "FieldError"

\* A call of the manager method itself, with a slug or an EntityModel. A
\* behaviour serves at most one creation and then one reading request.
ForEntity(entity_slug, user_model) ==
    /\ response.view \in {"none", "create"}
    /\ response' = [view |-> "for_entity", user |-> user_model, ref |-> entity_slug,
                    rows |-> for_entity(entity_slug, user_model),
                    object |-> 0, err |-> "none"]
    /\ UNCHANGED <<entities, ledger_entity, ledgerVars, raceVars>>

\* LedgerModelListView.get_queryset: the request's sort key, '-updated' when
\* it gives none, goes to for_entity(...).order_by(sort) unchecked.
LedgerModelListView(entity_slug, user, sort_param) ==
    LET sort == IF sort_param = "" THEN "-updated" ELSE sort_param
    IN /\ response.view \in {"none", "create"}
       /\ response' = [view |-> "list", user |-> user, ref |-> SlugRef(entity_slug),
                       rows |-> IF order_by_error(sort) = "none"
                                THEN order_by(for_entity(SlugRef(entity_slug), user), sort)
                                ELSE [l \in LedgerIds |-> 0],
                       object |-> 0, err |-> order_by_error(sort)]
       /\ UNCHANGED <<entities, ledger_entity, ledgerVars, raceVars>>

\* str.lower on the slugs of the model, for the iexact lookup.
lower(slug) == IF slug = UpperSlug THEN "a" ELSE slug

\* EntityModel.objects.for_user: the entities the user is the admin or a
\* manager of, as the number of joined rows of each.
for_user(user_model) ==
    [e \in Entities |->
        Cardinality({m \in manager_rows(e) : user_filter(e, m, user_model)})]

\* The number of rows of a queryset over the entities in S.
RECURSIVE row_count(_, _)
row_count(qs, S) ==
    IF S = {}
    THEN 0
    ELSE LET e == CHOOSE x \in S : TRUE
         IN qs[e] + row_count(qs, S \ {e})

\* entity_qs.get(slug__iexact=entity_slug): the entity and the error.
get_slug_iexact(qs, entity_slug) ==
    LET matching == {e \in Entities : lower(entities[e].slug) = lower(entity_slug)}
        n == row_count(qs, matching)
    IN [entity |-> IF n = 1 THEN CHOOSE e \in matching : qs[e] = 1 ELSE NoEntity,
        err |-> IF n = 0 THEN "DoesNotExist"
                ELSE IF n = 1 THEN "none"
                ELSE "MultipleObjectsReturned"]

\* LedgerModelCreateView.get_initial: EntityModel.objects.get(slug=slug), an
\* exact lookup among all entities, which every request passes when its form
\* is built.
get_initial(entity_slug) ==
    LET matching == {e \in Entities : entities[e].slug = entity_slug}
    IN [entity |-> IF Cardinality(matching) = 1 THEN CHOOSE e \in matching : TRUE
                   ELSE NoEntity,
        err |-> IF matching = {} THEN "DoesNotExist"
                ELSE IF Cardinality(matching) = 1 THEN "none"
                ELSE "MultipleObjectsReturned"]

\* LedgerModelCreateView.form_valid for a valid form: looks the entity up
\* among those of the user, assigns it to the form's instance and saves,
\* which inserts a ledger row with a new key.
form_valid(entity_slug, user) == get_slug_iexact(for_user(user), entity_slug)

\* A POST to LedgerModelCreateView with a valid form: get_initial, then
\* form_valid; an error of get_initial ends the request before form_valid.
LedgerModelCreateView(entity_slug, user) ==
    LET got == IF get_initial(entity_slug).err /= "none"
               THEN get_initial(entity_slug)
               ELSE form_valid(entity_slug, user)
        new == CHOOSE l \in LedgerIds \ ledger_rows :
                  \A other \in LedgerIds \ ledger_rows : l <= other
    IN /\ response.view = "none"
       /\ ledger_rows /= LedgerIds
       /\ ledger_entity' = IF got.err = "none"
                           THEN [ledger_entity EXCEPT ![new] = got.entity]
                           ELSE ledger_entity
       /\ response' = [view |-> "create", user |-> user, ref |-> SlugRef(entity_slug),
                       rows |-> [l \in LedgerIds |-> 0],
                       object |-> IF got.err = "none" THEN new ELSE 0,
                       err |-> got.err]
       /\ UNCHANGED <<entities, ledgerVars, raceVars>>

\* The update, balance sheet and income statement views, which have the same
\* get_queryset and get_slug_field: get_queryset is for_entity(...), and
\* get_object gets the row with uuid = ledger_pk from it
\* (Http404 for none, MultipleObjectsReturned for more than one), and
\* get_context_data appends the ledger's name to the page title, which raises
\* TypeError for a ledger whose name (null=True) is None. The name is a
\* column the model does not keep: the request finds it set or not.
LedgerDetailView(entity_slug, user, ledger_pk, name_is_none) ==
    LET qs == for_entity(SlugRef(entity_slug), user)
        err == IF qs[ledger_pk] = 0 THEN "Http404"
               ELSE IF qs[ledger_pk] > 1 THEN "MultipleObjectsReturned"
               ELSE IF name_is_none THEN "TypeError"
               ELSE "none"
    IN /\ response.view \in {"none", "create"}
       /\ response' =
            [view |-> "detail", user |-> user, ref |-> SlugRef(entity_slug),
             rows |-> [l \in LedgerIds |-> 0],
             object |-> IF err = "none" THEN ledger_pk ELSE 0,
             err |-> err]
       /\ UNCHANGED <<entities, ledger_entity, ledgerVars, raceVars>>

\* ---------------------------------------------------------------- two callers
Callers == {"A", "B"}

\* No call made yet by a caller.
NoRaceCall ==
    [n |-> 0, op |-> "none", commit |-> FALSE, guard |-> FALSE,
     predb |-> Row([posted |-> FALSE, locked |-> FALSE, hidden |-> FALSE]),
     all_commit |-> TRUE]

\* Caller c calls post, unpost, lock or unlock on its copy: the guard and the
\* assignment act on the copy; with commit the save is still to come. The
\* call record keeps the row as it was at the call and whether every call of
\* the caller so far had commit = True.
RaceCall(c, op, commit) ==
    LET guard == can(op, copy[c])
    IN /\ pc[c] = "idle"
       /\ call[c].n < MaxCalls
       /\ copy' = [copy EXCEPT ![c] = flags_after(op, copy[c])]
       /\ call' = [call EXCEPT ![c] = [n |-> call[c].n + 1, op |-> op, commit |-> commit,
                                       guard |-> guard, predb |-> db,
                                       all_commit |-> call[c].all_commit /\ commit]]
       /\ pc' = [pc EXCEPT ![c] = IF guard /\ commit THEN "save" ELSE "idle"]
       /\ UNCHANGED <<posted, locked, hidden, pk, db, journal_entries, last_closing_date,
                      last, prev, queried, accessVars>>

\* The save(update_fields=[flag, 'updated']) of caller c's pending call.
RaceSave(c) ==
    /\ pc[c] = "save"
    /\ db' = save(db, copy[c], {FlagOf(call[c].op), "updated"})
    /\ pc' = [pc EXCEPT ![c] = "idle"]
    /\ UNCHANGED <<posted, locked, hidden, pk, journal_entries, last_closing_date,
                   last, prev, queried, accessVars, copy, call>>

\* ---------------------------------------------------------------- specifications
\* No entity-scoped request is modelled: one fixed set of entities.
InitNoAccess ==
    /\ entities = [e \in Entities |-> [slug |-> EntitySlug[e], admin |-> 1, managers |-> {}]]
    /\ ledger_entity = [l \in LedgerIds |-> "e1"]
    /\ response = NoResponse

\* No second caller is modelled.
InitNoRace ==
    /\ copy = [c \in Callers |-> [posted |-> FALSE, locked |-> FALSE, hidden |-> FALSE]]
    /\ pc = [c \in Callers |-> "idle"]
    /\ call = [c \in Callers |-> NoRaceCall]

\* The journal entries and the closing date the ledger lives with.
InitEnv ==
    /\ journal_entries \in {jes \in SUBSET JournalEntries : Cardinality(jes) <= MaxJE}
    /\ last_closing_date \in ClosingDates
    /\ pk = RowPk
    /\ last = NoCall
    /\ prev = NoPrev
    /\ queried = {}
    /\ InitNoAccess
    /\ InitNoRace

\* A newly created ledger: the field defaults, saved.
Init ==
    /\ posted = FALSE
    /\ locked = FALSE
    /\ hidden = FALSE
    /\ db = Row(self)
    /\ InitEnv

\* A ledger row with any value of the three boolean fields.
InitAny ==
    /\ posted \in BOOLEAN
    /\ locked \in BOOLEAN
    /\ hidden \in BOOLEAN
    /\ db = Row(self)
    /\ InitEnv

Next ==
    \/ \E commit \in BOOLEAN : post(commit)
    \/ \E commit \in BOOLEAN : unpost(commit)
    \/ \E commit \in BOOLEAN : lock(commit)
    \/ \E commit \in BOOLEAN : unlock(commit)
    \/ delete

Spec == Init /\ [][Next]_vars

SpecAny == InitAny /\ [][Next]_vars

\* The journal entries of the ledger with key RowPk in the access model.
AccessJournalEntries == {je \in JournalEntries : je.posted = FALSE /\ je.timestamp < MaxJE}

\* Entities with unique slugs, an admin and any set of managers each; every
\* ledger id but the last has a row, which belongs to one entity, and the
\* ledger with key RowPk has journal entries. The ledger lifecycle is not
\* exercised.
InitAccess ==
    /\ entities \in {es \in [Entities -> [slug : Slugs, admin : Users, managers : SUBSET Users]] :
                        \A e \in Entities : es[e].slug = EntitySlug[e]}
    /\ ledger_entity \in {le \in [LedgerIds -> Entities \cup {NoEntity}] :
                            \A l \in LedgerIds : le[l] = NoEntity <=> l = MaxLedger}
    /\ response = NoResponse
    /\ posted = FALSE
    /\ locked = FALSE
    /\ hidden = FALSE
    /\ db = Row(self)
    /\ journal_entries = AccessJournalEntries
    /\ last_closing_date = None
    /\ pk = RowPk
    /\ last = NoCall
    /\ prev = NoPrev
    /\ queried = {}
    /\ InitNoRace

NextAccess ==
    \/ \E slug \in RequestSlugs, user \in Users : ForEntity(SlugRef(slug), user)
    \/ \E e \in Entities, user \in Users : ForEntity(EntityRef(e), user)
    \/ \E slug \in RequestSlugs, user \in Users, sort \in SortKeys :
          LedgerModelListView(slug, user, sort)
    \/ \E slug \in RequestSlugs, user \in Users : LedgerModelCreateView(slug, user)
    \/ \E slug \in RequestSlugs, user \in Users, ledger_pk \in LedgerIds,
          name_is_none \in BOOLEAN :
          LedgerDetailView(slug, user, ledger_pk, name_is_none)

SpecAccess == InitAccess /\ [][NextAccess]_vars

\* A persisted ledger in a state of the lifecycle, and two callers who have
\* each loaded their own copy of it.
InitRace ==
    /\ posted \in BOOLEAN
    /\ locked \in BOOLEAN
    /\ hidden \in BOOLEAN
    /\ locked = TRUE => posted = TRUE
    /\ db = Row(self)
    /\ copy = [c \in Callers |-> self]
    /\ pc = [c \in Callers |-> "idle"]
    /\ call = [c \in Callers |-> NoRaceCall]
    /\ journal_entries = {}
    /\ last_closing_date = None
    /\ pk = RowPk
    /\ last = NoCall
    /\ prev = NoPrev
    /\ queried = {}
    /\ InitNoAccess

NextRace ==
    \/ \E c \in Callers, op \in {"post", "unpost", "lock", "unlock"}, commit \in BOOLEAN :
          RaceCall(c, op, commit)
    \/ \E c \in Callers : RaceSave(c)

SpecRace == InitRace /\ [][NextRace]_vars

\* ---------------------------------------------------------------- state names
Unposted(l) == l.posted = FALSE /\ l.locked = FALSE

Posted(l) == l.posted = TRUE /\ l.locked = FALSE

PostedLocked(l) == l.posted = TRUE /\ l.locked = TRUE

LifecycleOps == {"post", "unpost", "lock", "unlock"}

\* ---------------------------------------------------------------- claims
\* C1: from a newly created ledger, after any sequence of post, unpost, lock
\* and unlock calls with any commit flag, the in-memory ledger has
\* locked = true only if posted = true.
C1_LockedImpliesPosted == locked = TRUE => posted = TRUE

C1_Witness == last.op = "lock" /\ last.guard /\ locked = TRUE /\ posted = TRUE

\* C2: whenever delete destroys the ledger, the ledger had posted = false and
\* locked = false and none of its posted journal entries had a date on or
\* before the entity's last_closing_date.
C2_DeleteLeavesNoClosedEntry ==
    [][(db.exists /\ ~db'.exists)
        => /\ posted = FALSE
           /\ locked = FALSE
           /\ \A je \in posted_journal_entries(journal_entries) :
                 last_closing_date = None \/ date(je.timestamp) > last_closing_date]_vars

\* C3: for every combination of (posted, locked, hidden), can_delete() is
\* true if and only if posted = false and locked = false; delete evaluates
\* exactly this guard.
C3_CanDeleteIff ==
    /\ \A l \in Flags : can_delete(l) <=> (l.posted = FALSE /\ l.locked = FALSE)
    /\ can_delete(self) <=> (posted = FALSE /\ locked = FALSE)
    /\ last.op = "delete"
         => (last.guard <=> (last.pre.posted = FALSE /\ last.pre.locked = FALSE))

C3_Witness ==
    /\ last.op = "delete"
    /\ last.guard = FALSE
    /\ last.pre.posted = FALSE
    /\ last.pre.locked = TRUE
    /\ last.pre.hidden = TRUE

\* C4: post acts exactly when posted = false; from Unposted it moves the
\* ledger to Posted (posted = true, locked still false), where can_lock() is
\* true; in any other state it changes nothing.
C4_Post ==
    last.op = "post"
      => /\ last.guard <=> (last.pre.posted = FALSE)
         /\ Unposted(last.pre) => (Posted(self) /\ can_lock(self))
         /\ ~Unposted(last.pre) => (posted = last.pre.posted /\ locked = last.pre.locked)
         /\ locked = last.pre.locked

C4_Witness ==
    /\ last.op = "post"
    /\ Unposted(last.pre)
    /\ last.commit = FALSE
    /\ Posted(self)

\* C5: unpost acts exactly when posted = true and locked = false, and then
\* moves the ledger to Unposted; on a locked ledger it never sets posted to
\* false.
C5_Unpost ==
    last.op = "unpost"
      => /\ last.guard <=> (last.pre.posted = TRUE /\ last.pre.locked = FALSE)
         /\ last.guard => Unposted(self)
         /\ ~last.guard => (posted = last.pre.posted /\ locked = last.pre.locked)
         /\ last.pre.locked = TRUE => posted = last.pre.posted

C5_Witness ==
    \/ last.op = "unpost" /\ Posted(last.pre) /\ Unposted(self)
    \/ last.op = "unpost" /\ PostedLocked(last.pre) /\ PostedLocked(self)

\* C6: lock acts exactly when locked = false and posted = true, and then
\* moves the ledger to PostedLocked; on an Unposted ledger it never sets
\* locked to true.
C6_Lock ==
    last.op = "lock"
      => /\ last.guard <=> (last.pre.locked = FALSE /\ last.pre.posted = TRUE)
         /\ last.guard => PostedLocked(self)
         /\ ~last.guard => (posted = last.pre.posted /\ locked = last.pre.locked)
         /\ Unposted(last.pre) => locked = FALSE

C6_Witness ==
    \/ last.op = "lock" /\ Posted(last.pre) /\ PostedLocked(self)
    \/ last.op = "lock" /\ Unposted(last.pre) /\ Unposted(self)

\* C7: unlock acts exactly when locked = true and posted = true, and then
\* moves the ledger to Posted.
C7_Unlock ==
    last.op = "unlock"
      => /\ last.guard <=> (last.pre.locked = TRUE /\ last.pre.posted = TRUE)
         /\ last.guard => Posted(self)
         /\ ~last.guard => (posted = last.pre.posted /\ locked = last.pre.locked)

C7_Witness == last.op = "unlock" /\ PostedLocked(last.pre) /\ Posted(self)

\* C8: a post, unpost, lock or unlock call made where its can_* predicate is
\* false raises no error, leaves (posted, locked, hidden) as they were and
\* writes nothing to the row, whatever the commit flag.
C8_IllegalCallIsNoOp ==
    (last.op \in LifecycleOps /\ last.guard = FALSE)
      => /\ last.err = "none"
         /\ self = last.pre
         /\ db = last.predb
         /\ last.saved = {}

C8_Witness ==
    /\ last.op = "unlock"
    /\ last.commit = TRUE
    /\ last.guard = FALSE
    /\ last.pre.locked = FALSE
    /\ db.exists
    /\ db.locked /= locked

\* C9: post called twice in succession on an Unposted ledger leaves the
\* ledger Posted after the first call and after the second, and the second
\* call raises no error.
C9_PostTwice ==
    (prev.op = "post" /\ Unposted(prev.pre) /\ last.op = "post")
      => /\ Posted(last.pre)
         /\ Posted(self)
         /\ last.err = "none"

C9_Witness ==
    /\ prev.op = "post"
    /\ Unposted(prev.pre)
    /\ last.op = "post"
    /\ last.commit = TRUE
    /\ Posted(self)

\* C10 as stated: from every state reachable from creation, lock and then
\* unlock restore the (posted, locked) pair the ledger had before the lock.
C10_LockUnlockRestores ==
    (prev.op = "lock" /\ last.op = "unlock")
      => (posted = prev.pre.posted /\ locked = prev.pre.locked)

\* C10 amended: from every state reachable from creation in which
\* locked = false, lock and then unlock restore the (posted, locked) pair
\* the ledger had before the lock.
C10_LockUnlockRestoresUnlocked ==
    (prev.op = "lock" /\ prev.pre.locked = FALSE /\ last.op = "unlock")
      => (posted = prev.pre.posted /\ locked = prev.pre.locked)

C10_Witness ==
    /\ prev.op = "lock"
    /\ Posted(prev.pre)
    /\ last.op = "unlock"
    /\ PostedLocked(last.pre)
    /\ Posted(self)

\* The ledger that differs from l only in hidden.
hidden_twin(l) == [l EXCEPT !.hidden = ~l.hidden]

\* C11: hidden is orthogonal to the lifecycle: two ledgers that differ only
\* in hidden get the same value of every can_* predicate, the same
\* (posted, locked) from post, unpost, lock and unlock and the same outcome
\* of delete, and no call changes hidden; stated of the ledger in each state
\* and the ledger that differs from it in hidden only.
C11_HiddenOrthogonal ==
    LET twin == hidden_twin(self)
    IN /\ can_post(self) = can_post(twin)
       /\ can_unpost(self) = can_unpost(twin)
       /\ can_lock(self) = can_lock(twin)
       /\ can_unlock(self) = can_unlock(twin)
       /\ can_delete(self) = can_delete(twin)
       /\ \A op \in LifecycleOps :
             /\ flags_after(op, self).posted = flags_after(op, twin).posted
             /\ flags_after(op, self).locked = flags_after(op, twin).locked
             /\ flags_after(op, self).hidden = hidden
       /\ delete_result(self, pk, db, journal_entries, last_closing_date)
            = delete_result(twin, pk, db, journal_entries, last_closing_date)
       /\ last.op \in LifecycleOps => self = flags_after(last.op, last.pre)
       /\ last.op /= "none" => hidden = last.pre.hidden
       /\ last.op = "delete" => last.guard = can_delete(hidden_twin(last.pre))

C11_Witness ==
    /\ last.op = "unpost"
    /\ last.pre.hidden = TRUE
    /\ Posted(last.pre)
    /\ Unposted(self)
    /\ hidden = TRUE

\* The posted journal entries with the greatest timestamp.
MostRecentPosted(jes) ==
    {je \in jes : je.posted = TRUE
                  /\ \A other \in jes : other.posted = TRUE => other.timestamp <= je.timestamp}

\* C12: delete on a ledger with posted = true or locked = true fails with
\* the LedgerNotDeletable validation error and leaves the ledger, its flags
\* and its journal entries unchanged.
C12_DeleteOfPostedOrLockedFails ==
    [][(last'.op = "delete" /\ (posted = TRUE \/ locked = TRUE))
        => /\ last'.err = "LedgerNotDeletable"
           /\ UNCHANGED <<posted, locked, hidden, db, journal_entries>>]_vars

C12_Witness ==
    /\ last.op = "delete"
    /\ last.err = "LedgerNotDeletable"
    /\ Posted(last.pre)
    /\ db.exists
    /\ journal_entries /= {}

\* C13: delete on a ledger with posted = false and locked = false whose most
\* recent posted journal entry is dated on or before the entity's
\* last_closing_date fails with the ClosedPeriodViolation validation error
\* and destroys neither the ledger nor its journal entries.
C13_DeleteInClosedPeriodFails ==
    [][(/\ last'.op = "delete"
        /\ posted = FALSE
        /\ locked = FALSE
        /\ db.exists
        /\ last_closing_date /= None
        /\ \E je \in MostRecentPosted(journal_entries) :
              date(je.timestamp) <= last_closing_date)
        => /\ last'.err = "ClosedPeriodViolation"
           /\ UNCHANGED <<posted, locked, hidden, db, journal_entries>>]_vars

C13_Witness ==
    /\ last.op = "delete"
    /\ last.err = "ClosedPeriodViolation"
    /\ Unposted(last.pre)
    /\ db.exists
    /\ \E je \in MostRecentPosted(journal_entries) : date(je.timestamp) = last_closing_date

\* Scenario B: the ledger is posted and not locked, the entity has a closing
\* date and the most recent posted journal entry is dated before it.
ScenarioB ==
    /\ last.op = "delete"
    /\ Posted(last.pre)
    /\ last.predb.exists
    /\ last_closing_date /= None
    /\ \E je \in MostRecentPosted(journal_entries) :
          date(je.timestamp) < last_closing_date

\* C14 as stated: in scenario B delete() fails with ClosedPeriodViolation.
C14_ScenarioBClosedPeriod == ScenarioB => last.err = "ClosedPeriodViolation"

\* C14 amended: in scenario B delete() fails with LedgerNotDeletable, the
\* error of the state check, and destroys nothing.
C14_ScenarioBNotDeletable ==
    ScenarioB => (last.err = "LedgerNotDeletable" /\ db = last.predb)

C14_Witness == ScenarioB /\ last.err = "LedgerNotDeletable" /\ db.exists

\* C15: the closed-period check is true only for a closing date that is set;
\* when the entity has no last_closing_date, delete of a ledger with
\* posted = false and locked = false destroys the ledger without any error,
\* also when the ledger has posted journal entries.
C15_NoClosingDateDeletes ==
    (/\ last.op = "delete"
     /\ Unposted(last.pre)
     /\ last.predb.exists
     /\ last_closing_date = None)
      => (last.err = "none" /\ ~db.exists)

\* C16: delete on a ledger with posted = false and locked = false that has
\* no posted journal entry, or whose most recent posted journal entry is
\* dated after the entity's last_closing_date, destroys the ledger and its
\* journal entries; once destroyed, the ledger row and its journal entries
\* are never brought back or changed.
C16_DeleteSucceedsAndIsTerminal ==
    [][/\ (/\ last'.op = "delete"
           /\ posted = FALSE
           /\ locked = FALSE
           /\ db.exists
           /\ \/ posted_journal_entries(journal_entries) = {}
              \/ /\ last_closing_date /= None
                 /\ \E je \in MostRecentPosted(journal_entries) :
                       date(je.timestamp) > last_closing_date)
            => (last'.err = "none" /\ db' = Destroyed /\ journal_entries' = {})
       /\ ~db.exists => (db' = db /\ journal_entries' = journal_entries)]_vars

C16_Witness ==
    /\ prev.op = "delete"
    /\ prev.err = "none"
    /\ last.op = "post"
    /\ last.commit = TRUE
    /\ last.guard = TRUE
    /\ ~db.exists
    /\ journal_entries = {}

\* C18: delete runs the state check first and stops there: when can_delete()
\* is false it fails with LedgerNotDeletable and has queried neither the
\* journal entries nor the closing date, also with a posted journal entry in
\* the closed period; when the state check passes it goes on to the journal
\* entries.
C18_StateCheckFirst ==
    last.op = "delete"
      => /\ last.guard = can_delete(last.pre)
         /\ last.guard = FALSE => (last.err = "LedgerNotDeletable" /\ queried = {})
         /\ (last.guard = TRUE /\ last.predb.exists) => "journal_entries" \in queried

C18_Witness ==
    /\ last.op = "delete"
    /\ last.guard = FALSE
    /\ last.err = "LedgerNotDeletable"
    /\ queried = {}
    /\ last_closing_date /= None
    /\ \E je \in posted_journal_entries(journal_entries) :
          date(je.timestamp) <= last_closing_date

\* C19: a legal post, unpost, lock or unlock on a ledger whose row exists:
\* with commit = false the in-memory flag changes and the row is as before;
\* with commit = true the row's value of the flag the call assigned equals the
\* new in-memory value and every other flag of the row is as before.
C19_CommitPersistsOneFlag ==
    (last.op \in LifecycleOps /\ last.guard = TRUE /\ last.predb.exists)
      => /\ self[FlagOf(last.op)] /= last.pre[FlagOf(last.op)]
         /\ last.commit = FALSE => (db = last.predb /\ last.saved = {})
         /\ last.commit = TRUE
              => /\ db[FlagOf(last.op)] = self[FlagOf(last.op)]
                 /\ \A f \in DOMAIN db \ {FlagOf(last.op)} : db[f] = last.predb[f]
                 /\ last.saved = {FlagOf(last.op), "updated"}
                 /\ last.err = "none"

C19_Witness ==
    /\ last.op = "lock"
    /\ last.commit = TRUE
    /\ last.guard = TRUE
    /\ db.exists
    /\ db.locked = TRUE
    /\ db.posted = FALSE
    /\ posted = TRUE

\* The principal is the admin or one of the managers of entity e.
Member(user, e) == entities[e].admin = user \/ user \in entities[e].managers

\* The ledgers a response shows.
Exposed(r) == ledgers_of(r.rows) \cup (IF r.object = 0 THEN {} ELSE {r.object})

\* C17: for every principal and entity, for_entity returns exactly the
\* ledgers of that entity when the principal is its admin or one of its
\* managers and none of them otherwise, never a ledger whose entity has the
\* principal as neither; the result is the same for the entity's slug and the
\* entity itself; and the list, update and statement views show only ledgers
\* that for_entity returns for the requesting user.
C17_EntityScopedAccess ==
    /\ \A user \in Users, e \in Entities :
          /\ Member(user, e)
               => ledgers_of(for_entity(EntityRef(e), user))
                    = {l \in LedgerIds : ledger_entity[l] = e}
          /\ ~Member(user, e) => ledgers_of(for_entity(EntityRef(e), user)) = {}
          /\ for_entity(SlugRef(entities[e].slug), user) = for_entity(EntityRef(e), user)
    /\ \A user \in Users, slug \in RequestSlugs :
          \A l \in ledgers_of(for_entity(SlugRef(slug), user)) :
             Member(user, ledger_entity[l]) /\ entities[ledger_entity[l]].slug = slug
    /\ response.view \in {"for_entity", "list", "detail"}
         => /\ Exposed(response) \subseteq ledgers_of(for_entity(response.ref, response.user))
            /\ \A l \in Exposed(response) : Member(response.user, ledger_entity[l])
    /\ response.view = "for_entity"
         => response.rows = for_entity(response.ref, response.user)
    /\ (response.view = "list" /\ response.err = "none")
         => ledgers_of(response.rows) = ledgers_of(for_entity(response.ref, response.user))

\* Scenario D, and a manager who is not the admin reaching a ledger.
C17_Witness ==
    \/ /\ response.view = "list"
       /\ response.err = "none"
       /\ \E e \in Entities :
             /\ entities[e].slug = response.ref.value
             /\ ~Member(response.user, e)
             /\ \E l \in LedgerIds : ledger_entity[l] = e
       /\ Exposed(response) = {}
    \/ /\ response.view = "detail"
       /\ response.object /= 0
       /\ entities[ledger_entity[response.object]].admin /= response.user

\* Both callers have made one call, lock(commit=True), each found can_lock()
\* true on its copy, and both saves are done.
BothLocked ==
    \A c \in Callers :
       /\ call[c].n = 1
       /\ call[c].op = "lock"
       /\ call[c].commit = TRUE
       /\ call[c].guard = TRUE
       /\ pc[c] = "idle"

\* C20: when two callers, each with its own copy of the same Posted ledger,
\* both call lock(commit=True) and both find can_lock() true and save, the
\* persisted ledger ends in PostedLocked.
C20_RacingLocksEndLocked == BothLocked => PostedLocked(db)

\* Both callers evaluated can_lock() before either had saved.
C20_Witness ==
    /\ BothLocked
    /\ \A c \in Callers : Posted(call[c].predb)
    /\ PostedLocked(db)

\* The flags of a row.
RowFlags(row) == [posted |-> row.posted, locked |-> row.locked, hidden |-> row.hidden]

\* The persisted ledger is locked only if it is posted.
PersistedLockedImpliesPosted(row) == row.locked = TRUE => row.posted = TRUE

\* C21 as stated: when two callers each load their own copy of the same
\* persisted ledger and run post, unpost, lock or unlock with commit = true
\* in any interleaving, the persisted ledger has locked = true only if
\* posted = true.
C21_RacePersistedLockedImpliesPosted ==
    (\A c \in Callers : call[c].all_commit) => PersistedLockedImpliesPosted(db)

\* C21 amended: a committed call made on a copy that agrees with the
\* persisted ledger, and saved before the persisted ledger changes again,
\* keeps locked = true only if posted = true in the persisted ledger.
C21_SerializedCallKeepsLockedImpliesPosted ==
    [][\A c \in Callers :
          (/\ pc[c] = "save"
           /\ pc'[c] = "idle"
           /\ db = call[c].predb
           /\ copy[c] = flags_after(call[c].op, RowFlags(db))
           /\ PersistedLockedImpliesPosted(db))
            => PersistedLockedImpliesPosted(db')]_vars

C21_Witness ==
    \E c \in Callers :
       /\ call[c].op = "lock"
       /\ call[c].commit = TRUE
       /\ call[c].guard = TRUE
       /\ pc[c] = "idle"
       /\ Posted(call[c].predb)
       /\ db = Row(copy[c])
       /\ PostedLocked(db)

\* C22: for a single caller on one in-memory ledger, after any sequence of
\* post, unpost, lock and unlock calls with any commit flags the persisted
\* ledger has locked = true only if posted = true, and after a call made with
\* commit = true the persisted (posted, locked) equals the in-memory pair.
C22_PersistedFollowsMemory ==
    db.exists
      => /\ PersistedLockedImpliesPosted(db)
         /\ (last.op \in LifecycleOps /\ last.commit = TRUE)
              => (db.posted = posted /\ db.locked = locked)

\* C23: no reachable ledger state is a dead end: one of can_post, can_unpost,
\* can_lock, can_unlock is true, and unlock followed by unpost ends in
\* Unposted, where can_delete() is true.
C23_NoDeadEnd ==
    /\ can_post(self) \/ can_unpost(self) \/ can_lock(self) \/ can_unlock(self)
    /\ (prev.op = "unlock" /\ last.op = "unpost") => (Unposted(self) /\ can_delete(self))

C23_Witness ==
    /\ prev.op = "unlock"
    /\ PostedLocked(prev.pre)
    /\ last.op = "unpost"
    /\ Posted(last.pre)
    /\ Unposted(self)

====
